---- MODULE Spec2Model ----
(***************************************************************************)
(* SimfileLibrary: the timing resolver (UntimedNotefield.calculate_timings *)
(* and AugmentedChart.__attrs_post_init__), the notefield transforms of    *)
(* chart_analysis.py and complex_types.py, the row operations of rows.py   *)
(* and parse() of simfile_parser.py, over exact rationals.                 *)
(*                                                                         *)
(* A rational is a pair <<numerator, denominator>> in lowest terms with a  *)
(* positive denominator, as fractions.Fraction keeps it.                   *)
(***************************************************************************)
EXTENDS Integers, Sequences, FiniteSets, TLC

VARIABLES
    note_field,     \* the notefield an operation is applied to
    bpm_segments,   \* the BPM schedule, a list of MeasureBPMPair
    stop_segments,  \* the stop schedule, a list of MeasureMeasurePair
    offset,         \* the offset, a Time
    outcome,        \* what the timing resolver returned or raised
    applied,        \* the transforms applied to note_field so far, with their inputs
    cwd,            \* the working directory of the process
    frame,          \* the locals of parse() and of ChartTransformer.simfile()
    sim,            \* the Simfile that simfile() assembles
    heap            \* the list objects the Simfile and its charts refer to

vars == <<note_field, bpm_segments, stop_segments, offset, outcome, applied,
          cwd, frame, sim, heap>>

\* The state of the parser; the operations on notefields and rows leave it alone.
parser == <<cwd, frame, sim, heap>>

NotParsing ==
    /\ cwd = "home"
    /\ frame = [pc |-> "idle"]
    /\ sim = [charts |-> <<>>]
    /\ heap = <<>>

-----------------------------------------------------------------------------
(* Bounds of the model. *)

MaxRows == 3        \* rows of an untimed notefield
MaxBpms == 2        \* segments of a BPM schedule
MaxStops == 1       \* segments of a stop schedule
MaxFieldRows == 3   \* rows of a timed notefield given to the transforms
MaxApplied == 2     \* transforms applied one after the other
MaxOrder == 3       \* the largest order of a row-sequence window
MaxLanes == 3       \* lanes of the rows that are permuted
MaxSequence == 2    \* rows of a row sequence
MaxTokens == 3      \* entries of a simfile

-----------------------------------------------------------------------------
(* basic_types.py: exact rationals. *)

Abs(n) == IF n < 0 THEN -n ELSE n

RECURSIVE GCD(_, _)
GCD(a, b) == IF b = 0 THEN a ELSE GCD(b, a % b)

\* Fraction(numerator, denominator): lowest terms, positive denominator.
CheaperFraction(numerator, denominator) ==
    LET g == GCD(Abs(numerator), Abs(denominator))
        s == IF denominator < 0 THEN -1 ELSE 1
    IN  <<(s * numerator) \div g, (s * denominator) \div g>>

Zero == CheaperFraction(0, 1)

FAdd(a, b) == CheaperFraction(a[1] * b[2] + b[1] * a[2], a[2] * b[2])
FSub(a, b) == CheaperFraction(a[1] * b[2] - b[1] * a[2], a[2] * b[2])
FMul(a, b) == CheaperFraction(a[1] * b[1], a[2] * b[2])
FDiv(a, b) == CheaperFraction(a[1] * b[2], a[2] * b[1])
FLess(a, b) == a[1] * b[2] < b[1] * a[2]
FLessEq(a, b) == a[1] * b[2] <= b[1] * a[2]

\* A slip: the tempo taken as bpm / 240.
measures_per_second_inverted(bpm) == FDiv(bpm, CheaperFraction(240, 1))

\* BPM.measures_per_second: Fraction(240, self).
measures_per_second(bpm) == FDiv(CheaperFraction(240, 1), bpm)

\* Beat.as_measure: self * Fraction(1, 4).
as_measure(beat) == FMul(beat, CheaperFraction(1, 4))

\* NoteObject, by the character of each member.
EMPTY_LANE == "0"
TAP_OBJECT == "1"
HOLD_START == "2"
HOLD_ROLL_END == "3"
ROLL_START == "4"
MINE == "M"
FAKE == "F"
LIFT == "L"
HOLD_BODY == "H"
ROLL_BODY == "R"

-----------------------------------------------------------------------------
(* rows.py and complex_types.py: the value types. *)

GlobalRow(row, pos) == [row |-> row, pos |-> pos]
GlobalTimedRow(row, pos, time) == [row |-> row, pos |-> pos, time |-> time]
MeasureBPMPair(measure, bpm) == [measure |-> measure, bpm |-> bpm]
MeasureMeasurePair(measure, value) == [measure |-> measure, value |-> value]

\* A slip: the arguments of the constructor in the wrong order.
GlobalRowEvolveSwapped(self, time) == GlobalTimedRow(self.row, time, self.pos)

\* GlobalRow.evolve(time): the same row and position, with the time attached.
GlobalRowEvolve(self, time) == GlobalTimedRow(self.row, self.pos, time)

\* Python's None, where a variable holds either a pair or nothing.
None == [none |-> TRUE]

\* What a call gives back: a value, or an exception that reaches the caller.
Returned(value) == [raised |-> "", value |-> value]
Raised(exception) == [raised |-> exception]

\* A call: what was called, the notefield it was called on, and its result.
Call(name, self, result) == [called |-> name, self |-> self, result |-> result]
NotCalled == [called |-> ""]

-----------------------------------------------------------------------------
(* sorted(list, key=attrgetter(...)): a stable sort by a rational key. *)

\* The key is the attribute name, as in attrgetter('measure').
InsertByKey(sorted, x, key) ==
    LET k == Cardinality({j \in 1..Len(sorted) : FLessEq(sorted[j][key], x[key])})
    IN  SubSeq(sorted, 1, k) \o <<x>> \o SubSeq(sorted, k + 1, Len(sorted))

SortedByKey(list, key) ==
    LET f[i \in 0..Len(list)] ==
            IF i = 0 THEN <<>> ELSE InsertByKey(f[i - 1], list[i], key)
    IN  f[Len(list)]

-----------------------------------------------------------------------------
(* chart_analysis.py, UntimedNotefield.calculate_timings: the timing        *)
(* resolver. A loop state w carries the locals of the function.            *)

\* A slip: the stretch before a BPM change is timed with the new tempo.
RECURSIVE BpmLoopNewTempo(_, _)
BpmLoopNewTempo(w, last_object) ==
    LET next_bpm == IF w.bpm_segments # <<>> THEN Head(w.bpm_segments) ELSE None
    IN  IF next_bpm # None /\ FLess(next_bpm.measure, last_object.pos)
        THEN LET delta_timing == FSub(next_bpm.measure, w.last_measure)
             IN  BpmLoopNewTempo([w EXCEPT
                     !.delta_time = FAdd(@, FMul(measures_per_second(next_bpm.bpm),
                                                 delta_timing)),
                     !.delta_measure = FSub(@, delta_timing),
                     !.last_bpm = next_bpm,
                     !.bpm_segments = Tail(@),
                     !.last_measure = next_bpm.measure], last_object)
        ELSE w

\* The inner "while True" over the BPM segments that start before the row.
RECURSIVE BpmLoop(_, _)
BpmLoop(w, last_object) ==
    LET next_bpm == IF w.bpm_segments # <<>> THEN Head(w.bpm_segments) ELSE None
    IN  IF next_bpm # None /\ FLess(next_bpm.measure, last_object.pos)
        THEN LET delta_timing == FSub(next_bpm.measure, w.last_measure)
             IN  BpmLoop([w EXCEPT
                     !.delta_time = FAdd(@, FMul(measures_per_second(w.last_bpm.bpm),
                                                 delta_timing)),
                     !.delta_measure = FSub(@, delta_timing),
                     !.last_bpm = next_bpm,
                     !.bpm_segments = Tail(@),
                     !.last_measure = next_bpm.measure], last_object)
        ELSE w

\* A slip: a stop at the row's own position is taken too ("<=" for "<").
RECURSIVE StopLoopInclusive(_)
StopLoopInclusive(w) ==
    IF w.next_stop # None
       /\ FLessEq(w.next_stop.measure, FAdd(w.last_measure, w.delta_measure))
    THEN StopLoopInclusive([w EXCEPT
             !.delta_time = FAdd(@, FDiv(w.next_stop.value,
                                         measures_per_second(w.last_bpm.bpm))),
             !.next_stop = IF w.stop_segments # <<>> THEN Head(w.stop_segments) ELSE None,
             !.stop_segments = IF @ # <<>> THEN Tail(@) ELSE @])
    ELSE w

\* The inner "while True" over the stops that lie before the row.
RECURSIVE StopLoop(_)
StopLoop(w) ==
    IF w.next_stop # None
       /\ FLess(w.next_stop.measure, FAdd(w.last_measure, w.delta_measure))
    THEN StopLoop([w EXCEPT
             !.delta_time = FAdd(@, FDiv(w.next_stop.value,
                                         measures_per_second(w.last_bpm.bpm))),
             !.next_stop = IF w.stop_segments # <<>> THEN Head(w.stop_segments) ELSE None,
             !.stop_segments = IF @ # <<>> THEN Tail(@) ELSE @])
    ELSE w

\* A slip: "elapsed_time = delta_time" for "elapsed_time += delta_time".
TimeRowNotAccumulated(w, last_object, offs) ==
    LET w0 == [w EXCEPT !.delta_measure = FSub(last_object.pos, w.last_measure),
                        !.delta_time = Zero]
        w1 == BpmLoop(w0, last_object)
        w2 == [w1 EXCEPT !.delta_time =
                   FAdd(@, FMul(measures_per_second(w1.last_bpm.bpm), w1.delta_measure))]
        w3 == StopLoop(w2)
        elapsed_time == w3.delta_time
    IN  [w3 EXCEPT !.elapsed_time = elapsed_time,
                   !.last_measure = FAdd(@, w3.delta_measure),
                   !.new_note_field =
                       Append(@, GlobalRowEvolve(last_object, FSub(elapsed_time, offs)))]

\* One pass of "while note_field_deque": the row last_object gets its time.
TimeRow(w, last_object, offs) ==
    LET w0 == [w EXCEPT !.delta_measure = FSub(last_object.pos, w.last_measure),
                        !.delta_time = Zero]
        w1 == BpmLoop(w0, last_object)
        w2 == [w1 EXCEPT !.delta_time =
                   FAdd(@, FMul(measures_per_second(w1.last_bpm.bpm), w1.delta_measure))]
        w3 == StopLoop(w2)
        elapsed_time == FAdd(w3.elapsed_time, w3.delta_time)
    IN  [w3 EXCEPT !.elapsed_time = elapsed_time,
                   !.last_measure = FAdd(@, w3.delta_measure),
                   !.new_note_field =
                       Append(@, GlobalRowEvolve(last_object, FSub(elapsed_time, offs)))]

RECURSIVE TimeRows(_, _, _)
TimeRows(w, note_field_deque, offs) ==
    IF note_field_deque = <<>>
    THEN w
    ELSE TimeRows(TimeRow(w, Head(note_field_deque), offs),
                  Tail(note_field_deque), offs)

\* The locals of calculate_timings before its loop; bpm_segments.popleft() has
\* taken the first segment, stop_segments.popleft() the first stop if there is one.
LoopStart(sorted_bpms, sorted_stops) ==
    [elapsed_time |-> Zero,
     last_measure |-> Zero,
     last_bpm |-> Head(sorted_bpms),
     bpm_segments |-> Tail(sorted_bpms),
     next_stop |-> IF sorted_stops # <<>> THEN Head(sorted_stops) ELSE None,
     stop_segments |-> IF sorted_stops # <<>> THEN Tail(sorted_stops) ELSE <<>>,
     delta_time |-> Zero,
     delta_measure |-> Zero,
     new_note_field |-> <<>>]

\* A slip: without a BPM schedule the rows are returned at time 0.
calculate_timings_lenient(self, bpms, stops, offs) ==
    LET sorted_bpms == SortedByKey(bpms, "measure")
        sorted_stops == SortedByKey(stops, "measure")
        note_field_deque == SortedByKey(self, "pos")
    IN  IF sorted_bpms = <<>>
        THEN Returned([i \in 1..Len(note_field_deque) |->
                          GlobalRowEvolve(note_field_deque[i], Zero)])
        ELSE Returned(TimeRows(LoopStart(sorted_bpms, sorted_stops),
                               note_field_deque, offs).new_note_field)

calculate_timings(self, bpms, stops, offs) ==
    LET sorted_bpms == SortedByKey(bpms, "measure")
        sorted_stops == SortedByKey(stops, "measure")
        note_field_deque == SortedByKey(self, "pos")
    IN  IF sorted_bpms = <<>>
        THEN Raised("IndexError")      \* bpm_segments.popleft() on an empty deque
        ELSE Returned(TimeRows(LoopStart(sorted_bpms, sorted_stops),
                               note_field_deque, offs).new_note_field)

-----------------------------------------------------------------------------
(* simfile_parser.py, AugmentedChart: a chart is timed as it is built.     *)

\* GlobalTimedRow.from_global_row(global_row, time): a GlobalRow plus a Time.
from_global_row(global_row, time) == GlobalTimedRow(global_row.row, global_row.pos, time)

AugmentedChart(rows, bpms, stops, offs) ==
    [note_field |-> rows, bpm_segments |-> bpms, stop_segments |-> stops, offset |-> offs]

\* __attrs_post_init__: the loop of calculate_timings, repeated verbatim on the
\* chart's own fields; the chart's note_field is cleared and refilled in place.
attrs_post_init(self) ==
    LET note_field_deque == SortedByKey(self.note_field, "pos")
        timed == calculate_timings(self.note_field, self.bpm_segments,
                                   self.stop_segments, self.offset)
    IN  IF timed.raised # ""
        THEN timed
        ELSE Returned([self EXCEPT !.note_field =
                 [i \in 1..Len(note_field_deque) |->
                     from_global_row(note_field_deque[i], timed.value[i].time)]])

-----------------------------------------------------------------------------
(* The inputs of the timing resolver. *)

\* Positions of rows, in measures.
RowPositions == {CheaperFraction(0, 1), CheaperFraction(1, 2),
                 CheaperFraction(1, 1), CheaperFraction(2, 1)}

\* One-lane rows.
TimingRows == {<<TAP_OBJECT>>, <<EMPTY_LANE>>}

\* The positions of a set, in increasing order.
Increasing(P) ==
    CHOOSE s \in [1..Cardinality(P) -> P] :
        \A i, j \in 1..Cardinality(P) : i < j => FLess(s[i], s[j])

\* The notefields the parser's measures() can hand over: rows at strictly
\* increasing positions. The rows alternate between the row first and the
\* other one-lane row, so that neighbours differ.
UntimedNotefields ==
    UNION {{[i \in 1..Cardinality(P) |->
                GlobalRow(IF i % 2 = 1 THEN first
                                       ELSE CHOOSE r \in TimingRows : r # first,
                          Increasing(P)[i])] :
               first \in TimingRows} :
           P \in {Q \in SUBSET RowPositions : Cardinality(Q) <= MaxRows}}

BpmPairs == {MeasureBPMPair(as_measure(CheaperFraction(beat, 1)), CheaperFraction(bpm, 1)) :
                beat \in {0, 4}, bpm \in {60, 120}}

\* #STOPS entries beat=beats; both sides become measures.
StopPairs == {MeasureMeasurePair(as_measure(CheaperFraction(p[1], 1)),
                                 as_measure(CheaperFraction(p[2], 1))) :
                 p \in {<<1, 2>>, <<4, 2>>}}

Offsets == {CheaperFraction(0, 1), CheaperFraction(1, 2)}

SeqsUpTo(S, n) == UNION {[1..k -> S] : k \in 0..n}

-----------------------------------------------------------------------------
(* The timing resolver as a state machine: a chart and its schedules are   *)
(* given, then one of the two entry points is called on them.              *)

Init ==
    /\ note_field \in UntimedNotefields
    /\ bpm_segments \in SeqsUpTo(BpmPairs, MaxBpms)
    /\ stop_segments \in SeqsUpTo(StopPairs, MaxStops)
    /\ offset \in Offsets
    /\ outcome = NotCalled
    /\ applied = <<>>
    /\ NotParsing

\* timed = note_field.calculate_timings(bpm_segments, stop_segments, offset)
CalculateTimings ==
    /\ outcome = NotCalled
    /\ outcome' = Call("calculate_timings", note_field,
                        calculate_timings(note_field, bpm_segments, stop_segments, offset))
    /\ UNCHANGED <<note_field, bpm_segments, stop_segments, offset, applied>>
    /\ UNCHANGED parser

\* chart = AugmentedChart(note_field=note_field, bpm_segments=..., ...): the
\* list note_field is the chart's own and is refilled unless popleft() raised.
ConstructAugmentedChart ==
    /\ outcome = NotCalled
    /\ LET result == attrs_post_init(
                         AugmentedChart(note_field, bpm_segments, stop_segments, offset))
       IN  /\ outcome' = Call("AugmentedChart", note_field, result)
           /\ note_field' = IF result.raised = "" THEN result.value.note_field
                                                  ELSE note_field
    /\ UNCHANGED <<bpm_segments, stop_segments, offset, applied>>
    /\ UNCHANGED parser

Next == CalculateTimings \/ ConstructAugmentedChart

Spec == Init /\ [][Next]_vars

\* The timed rows a finished call produced.
TimedRows ==
    IF outcome.called = "calculate_timings" THEN outcome.result.value
                                            ELSE outcome.result.value.note_field

Finished == outcome.called # "" /\ outcome.result.raised = ""

-----------------------------------------------------------------------------
(* Claims about the timing resolver. *)

\* C1: the resolver returns as many rows as it was given, in the same order;
\* output row i has the lane contents and the position of input row i, and
\* nothing but a time is added.
C1_SameRowsWithTime ==
    Finished =>
        /\ Len(TimedRows) = Len(outcome.self)
        /\ \A i \in 1..Len(outcome.self) :
              /\ TimedRows[i].row = outcome.self[i].row
              /\ TimedRows[i].pos = outcome.self[i].pos
              /\ DOMAIN TimedRows[i] = {"row", "pos", "time"}

C1_Witness ==
    /\ Finished
    /\ Len(outcome.self) = 3
    /\ outcome.self[1].row # outcome.self[2].row
    /\ TimedRows[3].time # TimedRows[3].pos

\* C2: under a single BPM b at measure 0, no stops and offset 0, every row's
\* time is its position times 240 / b.
C2_SingleBpmLinear ==
    (/\ Finished
     /\ Len(bpm_segments) = 1
     /\ bpm_segments[1].measure = Zero
     /\ stop_segments = <<>>
     /\ offset = Zero)
    => \A i \in 1..Len(TimedRows) :
          TimedRows[i].time =
              FMul(TimedRows[i].pos, FDiv(CheaperFraction(240, 1), bpm_segments[1].bpm))

C2_Witness ==
    /\ Finished
    /\ bpm_segments = <<MeasureBPMPair(Zero, CheaperFraction(60, 1))>>
    /\ stop_segments = <<>>
    /\ offset = Zero
    /\ Len(TimedRows) = 3
    /\ TimedRows[3].time = CheaperFraction(8, 1)

FMin(a, b) == IF FLess(a, b) THEN a ELSE b

\* The length of the part of [0, p] that segment k of the sorted schedule S
\* covers; the first segment is in force from measure 0, segment k until the
\* next one starts.
Covered(S, k, p) ==
    LET lo == IF k = 1 THEN Zero ELSE S[k].measure
        hi == IF k < Len(S) THEN FMin(p, S[k + 1].measure) ELSE p
    IN  IF FLess(lo, hi) THEN FSub(hi, lo) ELSE Zero

\* Sum over the segments of covered length times 240 / bpm.
SegmentSum(S, p) ==
    LET f[k \in 0..Len(S)] ==
            IF k = 0 THEN Zero
            ELSE FAdd(f[k - 1],
                      FMul(Covered(S, k, p), FDiv(CheaperFraction(240, 1), S[k].bpm)))
    IN  f[Len(S)]

\* C3: without stops, the time of a row at p is the sum over the sorted BPM
\* segments of (covered part of [0, p]) * 240 / bpm, minus the offset; the
\* schedule 0=120, 1=60 with rows at measures 0, 1, 2 and offset 0 gives the
\* times 0, 2, 6.
C3_PiecewiseSum ==
    (Finished /\ stop_segments = <<>>) =>
        /\ \A i \in 1..Len(TimedRows) :
              TimedRows[i].time =
                  FSub(SegmentSum(SortedByKey(bpm_segments, "measure"), TimedRows[i].pos),
                       offset)
        /\ (/\ bpm_segments = <<MeasureBPMPair(Zero, CheaperFraction(120, 1)),
                                MeasureBPMPair(CheaperFraction(1, 1), CheaperFraction(60, 1))>>
            /\ offset = Zero
            /\ [i \in 1..Len(TimedRows) |-> TimedRows[i].pos]
                   = <<Zero, CheaperFraction(1, 1), CheaperFraction(2, 1)>>)
           => [i \in 1..Len(TimedRows) |-> TimedRows[i].time]
                   = <<Zero, CheaperFraction(2, 1), CheaperFraction(6, 1)>>

C3_Witness ==
    /\ Finished
    /\ stop_segments = <<>>
    /\ offset = Zero
    /\ bpm_segments = <<MeasureBPMPair(Zero, CheaperFraction(120, 1)),
                        MeasureBPMPair(CheaperFraction(1, 1), CheaperFraction(60, 1))>>
    /\ [i \in 1..Len(TimedRows) |-> TimedRows[i].pos]
           = <<Zero, CheaperFraction(1, 1), CheaperFraction(2, 1)>>
    /\ TimedRows[3].time = CheaperFraction(6, 1)

\* C4: the times of the emitted rows never decrease along the notefield.
C4_TimesNonDecreasing ==
    Finished =>
        \A i, j \in 1..Len(TimedRows) :
            i < j => FLessEq(TimedRows[i].time, TimedRows[j].time)

C4_Witness ==
    /\ Finished
    /\ Len(TimedRows) = 3
    /\ Len(bpm_segments) = 2
    /\ bpm_segments[1].bpm # bpm_segments[2].bpm
    /\ stop_segments # <<>>
    /\ FLess(TimedRows[1].time, TimedRows[2].time)
    /\ FLess(TimedRows[2].time, TimedRows[3].time)

InsertAt(list, k, x) == SubSeq(list, 1, k) \o <<x>> \o SubSeq(list, k + 1, Len(list))

Max(S) == CHOOSE x \in S : \A y \in S : y <= x
Min(S) == CHOOSE x \in S : \A y \in S : x <= y

\* The BPM in force for a row at p: the last segment of the sorted schedule
\* that starts before p, the first segment if none does.
BpmInForce(p) ==
    LET S == SortedByKey(bpm_segments, "measure")
    IN  S[Max({k \in 1..Len(S) : k = 1 \/ FLess(S[k].measure, p)})].bpm

\* C5: one more stop of duration d anywhere in the stop schedule adds exactly
\* d / measures_per_second to the time of every row that lies after the stop,
\* by the BPM in force at the first such row (where the stop is consumed), and
\* leaves the times of the other rows as they were.
C5_StopsAdditive ==
    Finished =>
        \A stop \in StopPairs : \A k \in 0..Len(stop_segments) :
            LET rows == outcome.self
                after == {i \in 1..Len(rows) : FLess(stop.measure, rows[i].pos)}
                added == IF after = {} THEN Zero
                         ELSE FDiv(stop.value,
                                   FDiv(CheaperFraction(240, 1),
                                        BpmInForce(rows[Min(after)].pos)))
            IN  calculate_timings(rows, bpm_segments,
                                  InsertAt(stop_segments, k, stop), offset).value
                = [i \in 1..Len(rows) |->
                      [TimedRows[i] EXCEPT !.time = IF i \in after THEN FAdd(@, added)
                                                                   ELSE @]]

C5_Witness ==
    /\ Finished
    /\ Len(stop_segments) = 1
    /\ Len(bpm_segments) = 2
    /\ bpm_segments[1].bpm # bpm_segments[2].bpm
    /\ Len(outcome.self) = 3
    /\ \E i \in 2..3 : /\ outcome.self[i].pos = stop_segments[1].measure
                       /\ TimedRows[i].time = FSub(SegmentSum(SortedByKey(bpm_segments,
                                                       "measure"), TimedRows[i].pos), offset)
    /\ TimedRows[3].time # FSub(SegmentSum(SortedByKey(bpm_segments, "measure"),
                                           TimedRows[3].pos), offset)

\* C6: with BPMS 0=120, offset 0 and STOPS 1=2 (a stop of 1/2 measure at
\* measure 1/4), a row at measure 2 gets the time 2*2 + 0.5*2 = 5 seconds.
C6_StopScenarioFiveSeconds ==
    (/\ Finished
     /\ bpm_segments = <<MeasureBPMPair(Zero, CheaperFraction(120, 1))>>
     /\ stop_segments = <<MeasureMeasurePair(CheaperFraction(1, 4), CheaperFraction(1, 2))>>
     /\ offset = Zero)
    => \A i \in 1..Len(TimedRows) :
          TimedRows[i].pos = CheaperFraction(2, 1) => TimedRows[i].time = CheaperFraction(5, 1)

\* C7: resolving against an empty BPM schedule raises to the caller; nothing
\* is returned and the notefield is left as it was.
C7_EmptyBpmScheduleRaises ==
    (outcome.called # "" /\ bpm_segments = <<>>) =>
        /\ outcome.result.raised # ""
        /\ "value" \notin DOMAIN outcome.result
        /\ note_field = outcome.self

C7_Witness ==
    /\ outcome.called # ""
    /\ bpm_segments = <<>>
    /\ Len(outcome.self) = 3
    /\ stop_segments # <<>>

-----------------------------------------------------------------------------
(* rows.py: lanes of a row. Lanes count from 0 as enumerate() does; a row   *)
(* is a sequence, so lane l is element l + 1.                              *)

LanesOf(row) == 0..(Len(row) - 1)

\* HasRow.find_object_lanes(needle_object)
find_object_lanes(row, needle_object) ==
    {lane \in LanesOf(row) : row[lane + 1] = needle_object}

LONG_NOTE_BODY_SET == {HOLD_BODY, ROLL_BODY}
LONG_NOTE_ENDS_SET == {HOLD_START, ROLL_START, HOLD_ROLL_END}
LONG_NOTE_SET == LONG_NOTE_ENDS_SET \cup LONG_NOTE_BODY_SET

\* attr.evolve(row, row=PureRow(new_row)): the same row object with new lanes.
evolve_row(row, new_row) == [row EXCEPT !.row = new_row]

-----------------------------------------------------------------------------
(* chart_analysis.py, PureNotefield.hold_roll_bodies_distinct. *)

\* One pass of "for row in self"; h carries active_holds, active_rolls and
\* new_note_field.
BodiesRow(h, row) ==
    LET active_holds == h.active_holds \ find_object_lanes(row.row, HOLD_ROLL_END)
        active_rolls == h.active_rolls \ find_object_lanes(row.row, HOLD_ROLL_END)
        new_pure_row == [l \in 1..Len(row.row) |->
                            IF (l - 1) \in active_holds THEN HOLD_BODY
                            ELSE IF (l - 1) \in active_rolls THEN ROLL_BODY
                            ELSE row.row[l]]
    IN  [active_holds |-> active_holds \cup find_object_lanes(row.row, HOLD_START),
         active_rolls |-> active_rolls \cup find_object_lanes(row.row, ROLL_START),
         new_note_field |-> Append(h.new_note_field, evolve_row(row, new_pure_row))]

hold_roll_bodies_distinct(self) ==
    LET f[i \in 0..Len(self)] ==
            IF i = 0
            THEN [active_holds |-> {}, active_rolls |-> {}, new_note_field |-> <<>>]
            ELSE BodiesRow(f[i - 1], self[i])
    IN  f[Len(self)].new_note_field

-----------------------------------------------------------------------------
(* chart_analysis.py, TimedNotefield.miniholds_minirolls_as_taps. Row       *)
(* indices count from 0 as in the source; a coordinate is the pair          *)
(* (range(start, stop), lane). The two coordinate lists are only filtered   *)
(* and searched, so they are kept as sets.                                  *)

\* A slip: the two windows exchanged.
hold_regrab_window_swapped == CheaperFraction(500, 1000)

hold_regrab_window == CheaperFraction(250, 1000)
roll_tap_window == CheaperFraction(500, 1000)

Coord(start, stop, lane) == [start |-> start, stop |-> stop, lane |-> lane]

\* The inner loop "for sub_index, sub_row in enumerate(self[index:], start=index)":
\* c carries hold_starts, roll_starts and the coordinates found for this index.
RECURSIVE ScanEnds(_, _, _, _)
ScanEnds(self, index, sub_index, c) ==
    IF sub_index >= Len(self)
    THEN c
    ELSE LET ends == find_object_lanes(self[sub_index + 1].row, HOLD_ROLL_END)
             ended_holds == c.hold_starts \cap ends
             ended_rolls == c.roll_starts \cap ends
             next == [hold_starts |-> c.hold_starts \ ended_holds,
                      roll_starts |-> c.roll_starts \ ended_rolls,
                      hold_coords |-> c.hold_coords \cup
                          {Coord(index, sub_index + 1, lane) : lane \in ended_holds},
                      roll_coords |-> c.roll_coords \cup
                          {Coord(index, sub_index + 1, lane) : lane \in ended_rolls}]
         IN  IF next.hold_starts \cup next.roll_starts = {}
             THEN next
             ELSE ScanEnds(self, index, sub_index + 1, next)

\* The coordinates of the long notes that start in row index.
CoordsFrom(self, index) ==
    LET hold_starts == find_object_lanes(self[index + 1].row, HOLD_START)
        roll_starts == find_object_lanes(self[index + 1].row, ROLL_START)
        none == [hold_starts |-> {}, roll_starts |-> {},
                 hold_coords |-> {}, roll_coords |-> {}]
    IN  IF hold_starts # {} \/ roll_starts # {}
        THEN ScanEnds(self, index, index,
                      [none EXCEPT !.hold_starts = hold_starts,
                                   !.roll_starts = roll_starts])
        ELSE none

\* self[pair[0].stop - 1].time - self[pair[0].start].time
Duration(self, pair) == FSub(self[pair.stop].time, self[pair.start + 1].time)

miniholds_minirolls_as_taps(self) ==
    LET found == {CoordsFrom(self, index) : index \in 0..(Len(self) - 1)}
        all_hold_coords == UNION {c.hold_coords : c \in found}
        all_roll_coords == UNION {c.roll_coords : c \in found}
        hold_coords == {pair \in all_hold_coords :
                           FLess(hold_regrab_window, Duration(self, pair))}
        \* the source filters hold_coords here, not the roll coordinates
        roll_coords == {pair \in hold_coords :
                           FLess(roll_tap_window, Duration(self, pair))}
        combined_coords == hold_coords \cup roll_coords
        new_object(obj, self_index, lane) ==
            IF obj \notin LONG_NOTE_SET
            THEN obj
            ELSE LET is_safe == \E pair \in combined_coords :
                                    /\ self_index \in pair.start..(pair.stop - 1)
                                    /\ lane = pair.lane
                 IN  IF is_safe THEN obj
                     ELSE IF obj = HOLD_START THEN TAP_OBJECT ELSE EMPTY_LANE
    IN  [i \in 1..Len(self) |->
            evolve_row(self[i], [l \in 1..Len(self[i].row) |->
                                    new_object(self[i].row[l], i - 1, l - 1)])]

-----------------------------------------------------------------------------
(* The notefield transforms as a state machine: a timed notefield is given *)
(* and transforms are applied to it one after the other, as in             *)
(* chart.note_field.hold_roll_bodies_distinct.miniholds_minirolls_as_taps. *)

FieldObjects == {EMPTY_LANE, TAP_OBJECT, HOLD_START, HOLD_ROLL_END, ROLL_START}
WideObjects == {EMPTY_LANE, HOLD_START, HOLD_ROLL_END, ROLL_START}

NarrowRows == {<<a>> : a \in FieldObjects}
WideRows == {<<a, b>> : a, b \in WideObjects}

\* Distances between consecutive rows, in measures: 125 ms and 375 ms at 120 BPM.
FieldGaps == {CheaperFraction(1, 16), CheaperFraction(3, 16)}

FieldTempo == <<MeasureBPMPair(Zero, CheaperFraction(120, 1))>>

\* The position of row i when g[j] separates rows j and j + 1.
PosAfter(g, i) ==
    LET f[j \in 1..i] == IF j = 1 THEN Zero ELSE FAdd(f[j - 1], g[j - 1])
    IN  f[i]

ChartsOf(Rows, n) ==
    UNION {{[i \in 1..k |-> GlobalRow(c[i], PosAfter(g, i))] :
               c \in [1..k -> Rows], g \in [1..(k - 1) -> FieldGaps]} :
           k \in 0..n}

\* Timed notefields as the resolver hands them over: one-lane fields over all
\* the objects a file can hold, two-lane fields over the long-note objects.
TimedNotefields ==
    {calculate_timings(chart, FieldTempo, <<>>, Zero).value :
        chart \in ChartsOf(NarrowRows, MaxFieldRows)
                  \cup ChartsOf(WideRows, MaxFieldRows - 1)}

InitField ==
    /\ note_field \in TimedNotefields
    /\ bpm_segments = FieldTempo
    /\ stop_segments = <<>>
    /\ offset = Zero
    /\ outcome = NotCalled
    /\ applied = <<>>
    /\ NotParsing

Application(op, self) == [op |-> op, self |-> self]

\* note_field = note_field.hold_roll_bodies_distinct
HoldRollBodiesDistinct ==
    /\ Len(applied) < MaxApplied
    /\ note_field' = hold_roll_bodies_distinct(note_field)
    /\ applied' = Append(applied, Application("hold_roll_bodies_distinct", note_field))
    /\ UNCHANGED <<bpm_segments, stop_segments, offset, outcome>>
    /\ UNCHANGED parser

\* note_field = note_field.miniholds_minirolls_as_taps
MiniholdsMinirollsAsTaps ==
    /\ Len(applied) < MaxApplied
    /\ note_field' = miniholds_minirolls_as_taps(note_field)
    /\ applied' = Append(applied, Application("miniholds_minirolls_as_taps", note_field))
    /\ UNCHANGED <<bpm_segments, stop_segments, offset, outcome>>
    /\ UNCHANGED parser

NextField == HoldRollBodiesDistinct \/ MiniholdsMinirollsAsTaps

SpecField == InitField /\ [][NextField]_vars

\* What the i-th applied transform returned.
Result(i) == IF i < Len(applied) THEN applied[i + 1].self ELSE note_field

-----------------------------------------------------------------------------
(* Claims about the notefield transforms. *)

\* C8: hold_roll_bodies_distinct applied to its own result gives that result
\* again, f(f(c)) = f(c), for every notefield c.
C8_BodiesIdempotent ==
    \A i \in 2..Len(applied) :
        (/\ applied[i - 1].op = "hold_roll_bodies_distinct"
         /\ applied[i].op = "hold_roll_bodies_distinct")
        => Result(i) = Result(i - 1)

\* The long-note starts of kind start in the notefield c, as <<row, lane>> with
\* rows and lanes counted from 1.
StartsIn(c, start) ==
    {p \in (1..Len(c)) \X (1..2) : p[2] <= Len(c[p[1]].row) /\ c[p[1]].row[p[2]] = start}

\* The rows after r that hold a HOLD_ROLL_END on the lane.
EndsAfter(c, r, lane) == {e \in (r + 1)..Len(c) : c[e].row[lane] = HOLD_ROLL_END}

\* The long note at p is collapsed in the result o: TAP at its start, EMPTY at
\* its matching end.
Collapsed(c, o, p) ==
    /\ o[p[1]].row[p[2]] = TAP_OBJECT
    /\ o[Min(EndsAfter(c, p[1], p[2]))].row[p[2]] = EMPTY_LANE

\* The long note at p and its matching end are in the result o as they were.
Kept(c, o, p) ==
    LET e == Min(EndsAfter(c, p[1], p[2]))
    IN  o[p[1]].row[p[2]] = c[p[1]].row[p[2]] /\ o[e].row[p[2]] = c[e].row[p[2]]

\* The time from the start at p to its matching end.
Lasts(c, p) == FSub(c[Min(EndsAfter(c, p[1], p[2]))].time, c[p[1]].time)

\* An earlier HOLD_START on the lane of p, with no HOLD_ROLL_END on the lane
\* up to p (so with the same matching end), lasts more than 250 ms.
InsideLongerHold(c, p) ==
    \E q \in StartsIn(c, HOLD_START) :
        /\ q[2] = p[2]
        /\ q[1] < p[1]
        /\ EndsAfter(c, q[1], q[2]) = EndsAfter(c, p[1], p[2])
        /\ FLess(CheaperFraction(250, 1000), Lasts(c, q))

MiniSteps == {i \in 1..Len(applied) : applied[i].op = "miniholds_minirolls_as_taps"}

\* C9 as stated: every HOLD_START whose matching end is at most 250 ms later
\* becomes TAP and its end EMPTY; every HOLD_START whose matching end is more
\* than 250 ms later is kept, and so is that end.
C9_MiniholdsCollapse ==
    \A i \in MiniSteps :
        \A p \in StartsIn(applied[i].self, HOLD_START) :
            EndsAfter(applied[i].self, p[1], p[2]) # {} =>
                IF FLessEq(Lasts(applied[i].self, p), CheaperFraction(250, 1000))
                THEN Collapsed(applied[i].self, Result(i), p)
                ELSE Kept(applied[i].self, Result(i), p)

\* C9, amended: as above, but a HOLD_START of at most 250 ms that lies inside
\* an earlier hold on its lane which reaches the same end after more than
\* 250 ms is kept together with that end.
C9_MiniholdsCollapseUnlessNested ==
    \A i \in MiniSteps :
        \A p \in StartsIn(applied[i].self, HOLD_START) :
            EndsAfter(applied[i].self, p[1], p[2]) # {} =>
                IF /\ FLessEq(Lasts(applied[i].self, p), CheaperFraction(250, 1000))
                   /\ ~InsideLongerHold(applied[i].self, p)
                THEN Collapsed(applied[i].self, Result(i), p)
                ELSE Kept(applied[i].self, Result(i), p)

C9_Witness ==
    \E i \in MiniSteps :
        LET c == applied[i].self
        IN  /\ Len(c) = 2 /\ Len(c[1].row) = 2
            /\ c[1].row = <<HOLD_START, HOLD_START>>
            /\ c[2].row = <<HOLD_ROLL_END, EMPTY_LANE>>
            /\ Lasts(c, <<1, 1>>) = CheaperFraction(1, 8)
            /\ Result(i)[1].row = <<TAP_OBJECT, TAP_OBJECT>>
            /\ Result(i)[2].row = <<EMPTY_LANE, EMPTY_LANE>>

\* C10: a ROLL_START whose matching end is at most 500 ms later becomes TAP and
\* its end EMPTY; a ROLL_START whose matching end is more than 500 ms later is
\* kept, and so is that end.
C10_MinirollsCollapse ==
    \A i \in MiniSteps :
        \A p \in StartsIn(applied[i].self, ROLL_START) :
            EndsAfter(applied[i].self, p[1], p[2]) # {} =>
                IF FLessEq(Lasts(applied[i].self, p), CheaperFraction(500, 1000))
                THEN Collapsed(applied[i].self, Result(i), p)
                ELSE Kept(applied[i].self, Result(i), p)

-----------------------------------------------------------------------------
(* Python's list slicing and zip(), as the notefield transforms use them.   *)

\* The index a slice bound stands for in a list of length n: a negative bound
\* counts from the end, and every bound is clipped to 0..n.
SliceBound(i, n) ==
    LET j == IF i < 0 THEN i + n ELSE i
    IN  IF j < 0 THEN 0 ELSE IF j > n THEN n ELSE j

\* list[start:stop]
Slice(list, start, stop) ==
    SubSeq(list, SliceBound(start, Len(list)) + 1, SliceBound(stop, Len(list)))

\* list[start:]
SliceFrom(list, start) == Slice(list, start, Len(list))

\* zip(*lists) for at least one list: tuples up to the shortest list.
Zip(lists) ==
    [j \in 1..Min({Len(lists[i]) : i \in 1..Len(lists)}) |->
        [i \in 1..Len(lists) |-> lists[i][j]]]

-----------------------------------------------------------------------------
(* complex_types.py: NRowSequence and Notefield.get_row_sequence_of_n.      *)

\* NRowSequence.__init__: the list of tuples; self._order = len(self[0]).
NRowSequence(tuples) ==
    IF tuples = <<>> THEN Raised("IndexError") ELSE Returned(tuples)

\* zip(*(self[i:-order + i] for i in range(order - 1)), self[order:])
get_row_sequence_of_n(self, order) ==
    NRowSequence(Zip([i \in 1..(order - 1) |-> Slice(self, i - 1, (i - 1) - order)]
                     \o <<SliceFrom(self, order)>>))

-----------------------------------------------------------------------------
(* chart_analysis.py, TimedNotefield.delta_field. *)

GlobalDeltaRow(row, pos, time, delta) ==
    [row |-> row, pos |-> pos, time |-> time, delta |-> delta]

\* A slip: the difference taken the other way round.
GlobalTimedRowEvolveBackwards(self, next_row) ==
    GlobalDeltaRow(self.row, self.pos, self.time, FSub(self.time, next_row.time))

\* GlobalTimedRow.evolve(next_row)
GlobalTimedRowEvolve(self, next_row) ==
    GlobalDeltaRow(self.row, self.pos, self.time, FSub(next_row.time, self.time))

delta_field(self) ==
    LET pairs == Zip(<<Slice(self, 0, -1), SliceFrom(self, 1)>>)
        delta_rows == [i \in 1..Len(pairs) |-> GlobalTimedRowEvolve(pairs[i][1], pairs[i][2])]
    IN  IF self = <<>>
        THEN Raised("IndexError")      \* self[-1] on an empty list
        ELSE Returned(Append(delta_rows,
                             GlobalTimedRowEvolve(self[Len(self)], self[Len(self)])))

-----------------------------------------------------------------------------
(* chart_analysis.py: the filters of PureNotefield and UntimedNotefield.    *)

EMPTY_LANE_SET == {EMPTY_LANE}

\* HasRow.is_empty: not {*self.row} - EMPTY_LANE_SET
is_empty(row) == {row[l] : l \in 1..Len(row)} \ EMPTY_LANE_SET = {}

\* HasRow.replace_objects(from_note, to_note)
replace_objects(row, from_note, to_note) ==
    [l \in 1..Len(row) |-> IF row[l] \in from_note THEN to_note ELSE row[l]]

\* The rows of a list that satisfy keep, in their order.
RECURSIVE Filtered(_, _)
Filtered(list, keep) ==
    IF list = <<>> THEN <<>>
    ELSE (IF keep[Head(list)] THEN <<Head(list)>> ELSE <<>>) \o Filtered(Tail(list), keep)

\* PureNotefield.ignore_empty_rows
ignore_empty_rows(self) ==
    Filtered(self, [row \in {self[i] : i \in 1..Len(self)} |-> ~is_empty(row.row)])

\* UntimedNotefield.no_decorative_elements
no_decorative_elements(self) ==
    [i \in 1..Len(self) |->
        evolve_row(self[i], replace_objects(self[i].row, {MINE, FAKE}, EMPTY_LANE))]

-----------------------------------------------------------------------------
(* One transform applied to a timed notefield: the call and what it gave.  *)

\* A call that takes the order of the window besides the notefield.
CallOrder(name, self, order, result) ==
    [called |-> name, self |-> self, order |-> order, result |-> result]

\* One-lane notefields with decorative objects among the taps.
DecoratedNotefields ==
    {calculate_timings(chart, FieldTempo, <<>>, Zero).value :
        chart \in ChartsOf({<<MINE>>, <<FAKE>>, <<TAP_OBJECT>>}, 2)}

\* The notefield [A, B, C, D, E]: five different rows, a sixteenth apart.
FiveRows ==
    calculate_timings(
        [i \in 1..5 |-> GlobalRow(<<<<TAP_OBJECT, HOLD_START, EMPTY_LANE,
                                      ROLL_START, HOLD_ROLL_END>>[i]>>,
                                  CheaperFraction(i - 1, 16))],
        FieldTempo, <<>>, Zero).value

InitTransform ==
    /\ note_field \in TimedNotefields \cup DecoratedNotefields \cup {FiveRows}
    /\ bpm_segments = FieldTempo
    /\ stop_segments = <<>>
    /\ offset = Zero
    /\ outcome = NotCalled
    /\ applied = <<>>
    /\ NotParsing

\* result = note_field.<transform>; the notefield itself is not changed.
Transform(name, result) ==
    /\ outcome = NotCalled
    /\ outcome' = Call(name, note_field, result)
    /\ UNCHANGED <<note_field, bpm_segments, stop_segments, offset, applied>>
    /\ UNCHANGED parser

BodiesOnce ==
    Transform("hold_roll_bodies_distinct", Returned(hold_roll_bodies_distinct(note_field)))

MiniholdsOnce ==
    Transform("miniholds_minirolls_as_taps", Returned(miniholds_minirolls_as_taps(note_field)))

IgnoreEmptyRows == Transform("ignore_empty_rows", Returned(ignore_empty_rows(note_field)))

NoDecorativeElements ==
    Transform("no_decorative_elements", Returned(no_decorative_elements(note_field)))

DeltaField == Transform("delta_field", delta_field(note_field))

GetRowSequenceOfN ==
    /\ outcome = NotCalled
    /\ \E order \in 1..MaxOrder :
          outcome' = CallOrder("get_row_sequence_of_n", note_field, order,
                               get_row_sequence_of_n(note_field, order))
    /\ UNCHANGED <<note_field, bpm_segments, stop_segments, offset, applied>>
    /\ UNCHANGED parser

NextTransform ==
    \/ BodiesOnce
    \/ MiniholdsOnce
    \/ IgnoreEmptyRows
    \/ NoDecorativeElements
    \/ DeltaField
    \/ GetRowSequenceOfN

SpecTransform == InitTransform /\ [][NextTransform]_vars

-----------------------------------------------------------------------------
(* Claims about the row-sequence window and the delta field. *)

\* C11: the window of order k over a notefield of n >= k rows is the n-k+1
\* tuples (r_i, ..., r_{i+k-1}) for i = 0..n-k, in order; over [A, B, C, D, E]
\* with k = 2 it is [(A, B), (B, C), (C, D), (D, E)].
C11_OverlappingTuples ==
    (/\ outcome.called = "get_row_sequence_of_n"
     /\ Len(outcome.self) >= outcome.order)
    => /\ outcome.result.raised = ""
       /\ outcome.result.value =
              [i \in 1..(Len(outcome.self) - outcome.order + 1) |->
                  [j \in 1..outcome.order |-> outcome.self[i + j - 1]]]

\* C12: delta_field of n >= 1 timed rows has n rows with the row, position and
\* time of the input; delta[i] = time[i+1] - time[i] for i < n-1, the last
\* delta is 0, and time[0] plus the deltas before row i gives time[i].
C12_DeltaClosure ==
    (outcome.called = "delta_field" /\ Len(outcome.self) >= 1) =>
        /\ outcome.result.raised = ""
        /\ LET self == outcome.self
               d == outcome.result.value
               n == Len(self)
               sum[i \in 1..n] == IF i = 1 THEN self[1].time
                                  ELSE FAdd(sum[i - 1], d[i - 1].delta)
           IN  /\ Len(d) = n
               /\ \A i \in 1..n :
                     /\ d[i].row = self[i].row
                     /\ d[i].pos = self[i].pos
                     /\ d[i].time = self[i].time
                     /\ d[i].delta = IF i < n THEN FSub(self[i + 1].time, self[i].time)
                                              ELSE Zero
                     /\ sum[i] = self[i].time

C12_Witness ==
    /\ outcome.called = "delta_field"
    /\ Len(outcome.self) = 3
    /\ outcome.result.raised = ""
    /\ outcome.result.value[1].delta = CheaperFraction(1, 8)
    /\ outcome.result.value[2].delta = CheaperFraction(3, 8)
    /\ outcome.result.value[3].delta = Zero

\* Some HOLD_START or ROLL_START of the notefield c has no HOLD_ROLL_END on its
\* lane in a later row.
HasUnmatchedStart(c) ==
    \E p \in StartsIn(c, HOLD_START) \cup StartsIn(c, ROLL_START) :
        EndsAfter(c, p[1], p[2]) = {}

\* C17: a notefield with a HOLD_START or ROLL_START that no later
\* HOLD_ROLL_END on its lane closes is reported as an error by the operation
\* that processes it; no output notefield is returned for it.
C17_UnmatchedStartRejected ==
    (/\ outcome.called \in {"hold_roll_bodies_distinct", "miniholds_minirolls_as_taps"}
     /\ HasUnmatchedStart(outcome.self))
    => outcome.result.raised # ""

\* C20: every notefield transform returns a notefield for every input of its
\* type, the empty notefield and a notefield shorter than the order of the
\* window included; none raises.
C20_TransformsTotal ==
    outcome.called \in {"hold_roll_bodies_distinct", "ignore_empty_rows",
                        "no_decorative_elements", "miniholds_minirolls_as_taps",
                        "delta_field", "get_row_sequence_of_n"}
    => outcome.result.raised = ""

-----------------------------------------------------------------------------
(* rows.py: mirror, the permutations of a row and of a row sequence.       *)

\* A slip: the row rotated by one lane instead of reversed.
mirror_rotated(row) == [l \in 1..Len(row) |-> row[(l % Len(row)) + 1]]

\* PureRow.mirror: PureRow(self[::-1])
mirror(row) == [l \in 1..Len(row) |-> row[Len(row) + 1 - l]]

\* itertools.permutations(pool): every ordering of the positions of pool, in
\* lexicographic order of the positions.
RECURSIVE permutations(_)
permutations(pool) ==
    IF pool = <<>>
    THEN << <<>> >>
    ELSE LET startingWith(i) ==
                 LET rest == permutations(SubSeq(pool, 1, i - 1)
                                          \o SubSeq(pool, i + 1, Len(pool)))
                 IN  [j \in 1..Len(rest) |-> <<pool[i]>> \o rest[j]]
             upTo[i \in 0..Len(pool)] ==
                 IF i = 0 THEN <<>> ELSE upTo[i - 1] \o startingWith(i)
         IN  upTo[Len(pool)]

\* The loop of OrderedDict(...): an element is kept the first time it is met.
RECURSIVE OrderedKeys(_, _)
OrderedKeys(seen, rest) ==
    IF rest = <<>>
    THEN seen
    ELSE OrderedKeys(IF \E j \in 1..Len(seen) : seen[j] = Head(rest)
                     THEN seen
                     ELSE Append(seen, Head(rest)),
                     Tail(rest))

\* make_ordered_set(iterable): the first occurrence of every element, in order.
make_ordered_set(iterable) == OrderedKeys(<<>>, iterable)

\* HasRow.permutative_group of a PureRow
permutative_group(row) == make_ordered_set(permutations(row))

\* range(lanes)
LaneRange(lanes) == [l \in 1..lanes |-> l - 1]

\* The lane count classify_row accepts.
ClassifiedLanes == 4

\* @lru_cache(10): the maps of a lane count are computed once.
lru_cache ==
    [lanes \in 0..Max({MaxLanes, ClassifiedLanes}) |-> permutations(LaneRange(lanes))]

\* A slip: the first permutation is skipped.
generate_permutative_maps_without_first(lanes) == Tail(lru_cache[lanes])

\* generate_permutative_maps(lanes): lane_map[index] is element index + 1.
generate_permutative_maps(lanes) == lru_cache[lanes]

\* HasRow.switch_lanes(lane_map) of a PureRow
switch_lanes(row, lane_map) == [l \in 1..Len(row) |-> row[lane_map[l] + 1]]

\* RowSequence.permutative_group: a frozenset of tuples of rows.
sequence_permutative_group(self) ==
    IF self = <<>>
    THEN Raised("IndexError")          \* self[0] on an empty tuple
    ELSE LET maps == generate_permutative_maps(Len(self[1]))
         IN  Returned({[i \in 1..Len(self) |-> switch_lanes(self[i], maps[m])] :
                          m \in 1..Len(maps)})

-----------------------------------------------------------------------------
(* rows.py, RowFlags.classify_row: the flags are kept as a set of names.   *)

Count(row, obj) == Cardinality({l \in 1..Len(row) : row[l] = obj})

\* A slip: the mirrored row is not looked at.
OneHandLeftOnly(row, obj) == SubSeq(row, 1, 2) = <<obj, obj>>

\* row.row[:2] == (obj,) * 2 or row.row.mirror[:2] == (obj,) * 2
OneHand(row, obj) ==
    SubSeq(row, 1, 2) = <<obj, obj>> \/ SubSeq(mirror(row), 1, 2) = <<obj, obj>>

classify_row(row) ==
    IF Len(row) # ClassifiedLanes
    THEN Raised("TypeError")           \* raise NotImplemented
    ELSE IF Count(row, EMPTY_LANE) = 4
    THEN Returned({})
    ELSE LET taps == Count(row, TAP_OBJECT)
             holds == Count(row, HOLD_START)
             rolls == Count(row, ROLL_START)
         IN  Returned(
                 (IF taps = 1 THEN {"SINGLE"}
                  ELSE IF taps = 2
                       THEN (IF OneHand(row, TAP_OBJECT) THEN {"OHT_JUMP"} ELSE {"THT_JUMP"})
                  ELSE IF taps = 3 THEN {"HAND"}
                  ELSE IF taps = 4 THEN {"QUAD"}
                  ELSE {})
                 \cup
                 (IF holds = 0 THEN {}
                  ELSE IF holds = 1 THEN {"HOLD"}
                  ELSE IF holds = 2
                       THEN (IF OneHand(row, HOLD_START) THEN {"OHT_HOLD"} ELSE {"THT_HOLD"})
                  ELSE {"THT_HOLD"})
                 \cup
                 (IF rolls = 0 THEN {}
                  ELSE IF rolls = 1 THEN {"ROLL"}
                  ELSE IF rolls = 2
                       THEN (IF OneHand(row, ROLL_START) THEN {"OHT_ROLL"} ELSE {"THT_ROLL"})
                  ELSE {"THT_ROLL"})
                 \cup
                 (IF Count(row, HOLD_ROLL_END) # 0 THEN {"RELEASE"} ELSE {}))

-----------------------------------------------------------------------------
(* Rows and row sequences as a state machine: note_field holds a tuple of  *)
(* PureRows of one width, a single PureRow being a tuple of one; lanes are  *)
(* relabelled and rows mirrored in place, then a group or the flags of the *)
(* row are computed.                                                       *)

RowObjects == {EMPTY_LANE, TAP_OBJECT, HOLD_START}
SequenceObjects == {EMPTY_LANE, TAP_OBJECT}
ClassifiedObjects ==
    {EMPTY_LANE, TAP_OBJECT, HOLD_START, ROLL_START, HOLD_ROLL_END, MINE}

\* Single rows: every width up to MaxLanes, and the 4-lane rows classify_row takes.
SingleRows ==
    UNION {[1..w -> RowObjects] : w \in 0..MaxLanes}
    \cup [1..ClassifiedLanes -> ClassifiedObjects]

RowSequences ==
    UNION {[1..n -> [1..w -> SequenceObjects]] : n \in 2..MaxSequence, w \in 0..MaxLanes}

InitRow ==
    /\ note_field \in {<<row>> : row \in SingleRows} \cup RowSequences
    /\ bpm_segments = <<>>
    /\ stop_segments = <<>>
    /\ offset = Zero
    /\ outcome = NotCalled
    /\ applied = <<>>
    /\ NotParsing

\* row = row.mirror
Mirror ==
    /\ outcome = NotCalled
    /\ Len(note_field) = 1
    /\ Len(applied) < MaxApplied
    /\ \A i \in 1..Len(applied) : applied[i].op = "mirror"
    /\ note_field' = <<mirror(note_field[1])>>
    /\ applied' = Append(applied, Application("mirror", note_field))
    /\ UNCHANGED <<bpm_segments, stop_segments, offset, outcome>>
    /\ UNCHANGED parser

\* sequence = tuple(obj.switch_lanes(lane_map) for obj in sequence)
SwitchLanes ==
    /\ outcome = NotCalled
    /\ Len(note_field) > 1
    /\ applied = <<>>
    /\ LET maps == generate_permutative_maps(Len(note_field[1]))
       IN  \E m \in 1..Len(maps) :
               note_field' = [i \in 1..Len(note_field) |->
                                 switch_lanes(note_field[i], maps[m])]
    /\ applied' = <<Application("switch_lanes", note_field)>>
    /\ UNCHANGED <<bpm_segments, stop_segments, offset, outcome>>
    /\ UNCHANGED parser

\* group = row.permutative_group
PermutativeGroup ==
    /\ outcome = NotCalled
    /\ Len(note_field) = 1
    /\ outcome' = Call("permutative_group", note_field[1],
                        Returned(permutative_group(note_field[1])))
    /\ UNCHANGED <<note_field, bpm_segments, stop_segments, offset, applied>>
    /\ UNCHANGED parser

\* kind = RowFlags.classify_row(row)
ClassifyRow ==
    /\ outcome = NotCalled
    /\ Len(note_field) = 1
    /\ outcome' = Call("classify_row", note_field[1], classify_row(note_field[1]))
    /\ UNCHANGED <<note_field, bpm_segments, stop_segments, offset, applied>>
    /\ UNCHANGED parser

\* group = RowSequence(sequence).permutative_group
SequencePermutativeGroup ==
    /\ outcome = NotCalled
    /\ Len(note_field) > 1
    /\ outcome' = Call("RowSequence.permutative_group", note_field,
                        sequence_permutative_group(note_field))
    /\ UNCHANGED <<note_field, bpm_segments, stop_segments, offset, applied>>
    /\ UNCHANGED parser

NextRow ==
    \/ Mirror
    \/ SwitchLanes
    \/ PermutativeGroup
    \/ ClassifyRow
    \/ SequencePermutativeGroup

SpecRow == InitRow /\ [][NextRow]_vars

-----------------------------------------------------------------------------
(* Claims about rows and row sequences. *)

\* The note objects of a row as a multiset: how often each object occurs.
ObjectCounts(row) == [obj \in ClassifiedObjects |-> Count(row, obj)]

\* C13: mirroring a PureRow twice gives the row back; the permutation group of
\* a PureRow contains the row, has no duplicates, and each member has the
\* width and the multiset of note objects of the row.
C13_MirrorAndGroup ==
    /\ \A i \in 2..Len(applied) :
          (applied[i - 1].op = "mirror" /\ applied[i].op = "mirror")
          => Result(i) = applied[i - 1].self
    /\ outcome.called = "permutative_group" =>
          LET p == outcome.self
              g == outcome.result.value
          IN  /\ \E i \in 1..Len(g) : g[i] = p
              /\ \A i, j \in 1..Len(g) : i # j => g[i] # g[j]
              /\ \A i \in 1..Len(g) : /\ Len(g[i]) = Len(p)
                                      /\ ObjectCounts(g[i]) = ObjectCounts(p)

C13_Witness ==
    /\ Len(applied) = 2
    /\ applied[1].self = <<(<<TAP_OBJECT, EMPTY_LANE, HOLD_START>>)>>
    /\ applied[2].self = <<(<<HOLD_START, EMPTY_LANE, TAP_OBJECT>>)>>
    /\ outcome.called = "permutative_group"
    /\ Len(outcome.result.value) = 6

Factorial(n) == LET f[i \in 0..n] == IF i = 0 THEN 1 ELSE i * f[i - 1] IN f[n]

\* C14: the permutation group of a row sequence S with lanes relabelled by any
\* lane permutation is the permutation group of S; the group of a W-lane
\* sequence contains the sequence and has at most W! members.
C14_GroupInvariantUnderRelabeling ==
    outcome.called = "RowSequence.permutative_group" =>
        /\ outcome.result.raised = ""
        /\ outcome.self \in outcome.result.value
        /\ Cardinality(outcome.result.value) <= Factorial(Len(outcome.self[1]))
        /\ (applied # <<>> /\ applied[1].op = "switch_lanes") =>
              outcome.result.value = sequence_permutative_group(applied[1].self).value

C14_Witness ==
    /\ outcome.called = "RowSequence.permutative_group"
    /\ applied # <<>>
    /\ applied[1].op = "switch_lanes"
    /\ applied[1].self = <<(<<TAP_OBJECT, EMPTY_LANE, EMPTY_LANE>>),
                           (<<EMPTY_LANE, TAP_OBJECT, EMPTY_LANE>>)>>
    /\ outcome.self = <<(<<EMPTY_LANE, EMPTY_LANE, TAP_OBJECT>>),
                        (<<TAP_OBJECT, EMPTY_LANE, EMPTY_LANE>>)>>
    /\ Cardinality(outcome.result.value) = 6

\* The lanes of a row that hold a TAP_OBJECT, counted from 0.
TapLanes(row) == find_object_lanes(row, TAP_OBJECT)

\* C15: on a 4-lane row, of SINGLE, OHT_JUMP, THT_JUMP, HAND and QUAD
\* classify_row sets none for 0 taps, SINGLE for 1, OHT_JUMP for 2 taps on
\* lanes {0,1} or {2,3}, THT_JUMP for 2 taps elsewhere, HAND for 3 and QUAD
\* for 4; RELEASE is set exactly when the row holds a HOLD_ROLL_END. 1100
\* gives {OHT_JUMP}, 1010 {THT_JUMP}, 1111 {QUAD} and 2003 {HOLD, RELEASE}.
C15_ClassifyRow ==
    (outcome.called = "classify_row" /\ Len(outcome.self) = 4) =>
        /\ outcome.result.raised = ""
        /\ LET row == outcome.self
               kind == outcome.result.value
               taps == Cardinality(TapLanes(row))
           IN  /\ kind \cap {"SINGLE", "OHT_JUMP", "THT_JUMP", "HAND", "QUAD"} =
                     (CASE taps = 0 -> {}
                        [] taps = 1 -> {"SINGLE"}
                        [] taps = 2 -> IF TapLanes(row) \in {{0, 1}, {2, 3}}
                                       THEN {"OHT_JUMP"} ELSE {"THT_JUMP"}
                        [] taps = 3 -> {"HAND"}
                        [] taps = 4 -> {"QUAD"})
               /\ "RELEASE" \in kind <=> \E l \in 1..4 : row[l] = HOLD_ROLL_END
               /\ row = <<"1", "1", "0", "0">> => kind = {"OHT_JUMP"}
               /\ row = <<"1", "0", "1", "0">> => kind = {"THT_JUMP"}
               /\ row = <<"1", "1", "1", "1">> => kind = {"QUAD"}
               /\ row = <<"2", "0", "0", "3">> => kind = {"HOLD", "RELEASE"}

C15_Witness ==
    /\ outcome.called = "classify_row"
    /\ outcome.self = <<HOLD_START, EMPTY_LANE, EMPTY_LANE, HOLD_ROLL_END>>
    /\ outcome.result = Returned({"HOLD", "RELEASE"})

-----------------------------------------------------------------------------
(* simfile_parser.py: parse() and ChartTransformer.simfile(). The grammar   *)
(* has turned the text into tokens; a token is None, a PureChart, a tuple   *)
(* (a meta entry) or a Tree with data and children. A list that is shared   *)
(* between objects is an entry of heap, and a field holds its index.        *)

NoneToken == [type |-> "NoneType"]
PureChart(rows) == [type |-> "PureChart", note_field |-> rows]
MetaToken(key, value) == [type |-> "tuple", key |-> key, value |-> value]
Tree(data, children) == [type |-> "Tree", data |-> data, children |-> children]

\* Simfile(): bpm_segments and stop_segments are two new lists, Factory(list).
Simfile(bpm_list, stop_list) ==
    [bpm_segments |-> bpm_list,
     stop_segments |-> stop_list,
     offset |-> Zero,
     display_bpm |-> None,
     meta |-> {},
     charts |-> <<>>,
     file_context |-> None]

\* Time(result.offset)
Time(value) == CheaperFraction(value[1], value[2])

\* AugmentedChart(**token.__dict__, bpm_segments=result.bpm_segments,
\* stop_segments=result.stop_segments, offset=Time(result.offset)): the chart
\* is given the Simfile's two lists themselves; __attrs_post_init__ times the
\* rows with what the lists hold now. built_with keeps those values.
new_chart(token, result, lists) ==
    LET built == attrs_post_init(AugmentedChart(token.note_field,
                                                lists[result.bpm_segments],
                                                lists[result.stop_segments],
                                                Time(result.offset)))
    IN  IF built.raised # ""
        THEN built
        ELSE Returned([note_field |-> built.value.note_field,
                       bpm_segments |-> result.bpm_segments,
                       stop_segments |-> result.stop_segments,
                       offset |-> Time(result.offset),
                       built_with |-> [bpm_segments |-> lists[result.bpm_segments],
                                       stop_segments |-> lists[result.stop_segments],
                                       offset |-> Time(result.offset)]])

\* min(...) or max(...) of the BPMs of a non-empty schedule.
Least(bpms) ==
    CHOOSE b \in {bpms[i].bpm : i \in 1..Len(bpms)} :
        \A i \in 1..Len(bpms) : FLessEq(b, bpms[i].bpm)
Greatest(bpms) ==
    CHOOSE b \in {bpms[i].bpm : i \in 1..Len(bpms)} :
        \A i \in 1..Len(bpms) : FLessEq(bpms[i].bpm, b)

-----------------------------------------------------------------------------
(* The files given to parse(). *)

\* The directories that exist; chdir() to anything else raises.
Directories == {"home", "songs"}

ChartRows ==
    <<GlobalRow(<<TAP_OBJECT>>, Zero),
      GlobalRow(<<EMPTY_LANE>>, CheaperFraction(1, 1)),
      GlobalRow(<<TAP_OBJECT>>, CheaperFraction(2, 1))>>

\* #BPMS:0=120,4=60;  #STOPS:1=2;  #STOPS:;  #OFFSET:0.5;  #TITLE:x;  #NOTES
Entries ==
    {Tree("bpms", <<(<<MeasureBPMPair(Zero, CheaperFraction(120, 1)),
                       MeasureBPMPair(CheaperFraction(1, 1), CheaperFraction(60, 1))>>)>>),
     Tree("stops", <<(<<MeasureMeasurePair(CheaperFraction(1, 4), CheaperFraction(1, 2))>>)>>),
     Tree("stops", <<>>),
     Tree("offset", <<CheaperFraction(1, 2)>>),
     MetaToken("TITLE", "x"),
     PureChart(ChartRows)}

\* A file: its path splits into dirname and a name, it can be opened or not,
\* and its text is well-formed (then it has tokens) or not.
File(dirname, readable, well_formed, tokens) ==
    [dirname |-> dirname, readable |-> readable,
     well_formed |-> well_formed, tokens |-> tokens]

Files ==
    {File("songs", FALSE, FALSE, <<>>),     \* cannot be opened
     File("", TRUE, TRUE, <<>>),            \* a bare file name: dirname is ''
     File("songs", TRUE, FALSE, <<>>)}      \* the grammar rejects the text
    \cup {File("songs", TRUE, TRUE, tokens) : tokens \in SeqsUpTo(Entries, MaxTokens)}

-----------------------------------------------------------------------------
(* parse(file) as a state machine: one step per statement that can fail or  *)
(* that changes the working directory, and one per token of simfile().      *)

InitParse ==
    /\ note_field = <<>>
    /\ bpm_segments = <<>>
    /\ stop_segments = <<>>
    /\ offset = Zero
    /\ outcome = NotCalled
    /\ applied = <<>>
    /\ cwd \in Directories
    /\ frame = [pc |-> "idle"]
    /\ sim = [charts |-> <<>>]
    /\ heap = <<>>

notefields == <<note_field, bpm_segments, stop_segments, offset, applied>>

\* parse(file): this_dir = getcwd()
ParseCall ==
    /\ frame.pc = "idle"
    /\ \E file \in Files :
          frame' = [pc |-> "open", this_dir |-> cwd, file |-> file,
                    tokens |-> <<>>, raised |-> ""]
    /\ UNCHANGED <<notefields, outcome, cwd, sim, heap>>

\* with open(file, 'r', ...) as simfile: lines = simfile.readlines()
\* An exception here is outside the try statement and leaves parse() at once.
OpenFile ==
    /\ frame.pc = "open"
    /\ IF frame.file.readable
       THEN /\ frame' = [frame EXCEPT !.pc = "chdir"]
            /\ UNCHANGED outcome
       ELSE /\ frame' = [frame EXCEPT !.pc = "done", !.raised = "FileNotFoundError"]
            /\ outcome' = Call("parse", frame.file, Raised("FileNotFoundError"))
    /\ UNCHANGED <<notefields, cwd, sim, heap>>

\* try: chdir(path.dirname(file))
Chdir ==
    /\ frame.pc = "chdir"
    /\ IF frame.file.dirname \in Directories
       THEN /\ cwd' = frame.file.dirname
            /\ frame' = [frame EXCEPT !.pc = "parse"]
       ELSE /\ cwd' = cwd
            /\ frame' = [frame EXCEPT !.pc = "finally", !.raised = "FileNotFoundError"]
    /\ UNCHANGED <<notefields, outcome, sim, heap>>

\* _SM_PARSER.parse(simfile): the grammar rejects the text, or the transformer
\* reaches simfile(tokens): result = Simfile(); result._file_context = getcwd()
LarkParse ==
    /\ frame.pc = "parse"
    /\ IF frame.file.well_formed
       THEN /\ frame' = [frame EXCEPT !.pc = "tokens", !.tokens = frame.file.tokens]
            /\ sim' = [Simfile(1, 2) EXCEPT !.file_context = cwd]
            /\ heap' = <<(<<>>), (<<>>)>>
       ELSE /\ frame' = [frame EXCEPT !.pc = "finally", !.raised = "UnexpectedInput"]
            /\ UNCHANGED <<sim, heap>>
    /\ UNCHANGED <<notefields, outcome, cwd>>

\* One pass of "for token in tokens".
SimfileToken ==
    /\ frame.pc = "tokens"
    /\ frame.tokens # <<>>
    /\ LET token == Head(frame.tokens)
           next == [frame EXCEPT !.tokens = Tail(@)]
       IN  IF token.type = "NoneType"                       \* if not token: continue
           THEN frame' = next /\ UNCHANGED <<sim, heap>>
           ELSE IF token.type = "PureChart"
           THEN LET chart == new_chart(token, sim, heap)
                IN  IF chart.raised # ""
                    THEN /\ frame' = [frame EXCEPT !.pc = "finally",
                                                   !.raised = chart.raised]
                         /\ UNCHANGED <<sim, heap>>
                    ELSE /\ frame' = next
                         /\ sim' = [sim EXCEPT !.charts = Append(@, chart.value)]
                         /\ UNCHANGED heap
           ELSE IF token.type = "tuple"
           THEN /\ frame' = next
                /\ sim' = [sim EXCEPT !.meta =
                              {e \in @ : e[1] # token.key} \cup {<<token.key, token.value>>}]
                /\ UNCHANGED heap
           ELSE IF token.children = <<>>                    \* elif not token.children
           THEN frame' = next /\ UNCHANGED <<sim, heap>>
           ELSE IF token.data = "bpms"                      \* result.bpm_segments += ...
           THEN /\ frame' = next
                /\ heap' = [heap EXCEPT ![sim.bpm_segments] = @ \o token.children[1]]
                /\ UNCHANGED sim
           ELSE IF token.data = "stops"
           THEN /\ frame' = next
                /\ heap' = [heap EXCEPT ![sim.stop_segments] = @ \o token.children[1]]
                /\ UNCHANGED sim
           ELSE /\ frame' = next                            \* setattr(result, ...)
                /\ sim' = [sim EXCEPT ![token.data] = token.children[1]]
                /\ UNCHANGED heap
    /\ UNCHANGED <<notefields, outcome, cwd>>

\* After the loop: display_bpm from the least and the greatest BPM; min() of
\* an empty schedule raises ValueError.
DisplayBpm ==
    /\ frame.pc = "tokens"
    /\ frame.tokens = <<>>
    /\ IF sim.display_bpm # None
       THEN frame' = [frame EXCEPT !.pc = "finally"] /\ UNCHANGED sim
       ELSE IF heap[sim.bpm_segments] = <<>>
       THEN /\ frame' = [frame EXCEPT !.pc = "finally", !.raised = "ValueError"]
            /\ UNCHANGED sim
       ELSE /\ frame' = [frame EXCEPT !.pc = "finally"]
            /\ sim' = [sim EXCEPT !.display_bpm = <<Least(heap[sim.bpm_segments]),
                                                    Greatest(heap[sim.bpm_segments])>>]
    /\ UNCHANGED <<notefields, outcome, cwd, heap>>

\* A slip: the directory is restored only when nothing was raised.
FinallyOnSuccessOnly ==
    /\ frame.pc = "finally"
    /\ cwd' = IF frame.raised = "" THEN frame.this_dir ELSE cwd
    /\ frame' = [frame EXCEPT !.pc = "done"]
    /\ outcome' = Call("parse", frame.file,
                        IF frame.raised # "" THEN Raised(frame.raised) ELSE Returned(sim))
    /\ UNCHANGED <<notefields, sim, heap>>

\* finally: chdir(this_dir); then the exception goes on or parsed_chart is returned.
Finally ==
    /\ frame.pc = "finally"
    /\ cwd' = frame.this_dir
    /\ frame' = [frame EXCEPT !.pc = "done"]
    /\ outcome' = Call("parse", frame.file,
                        IF frame.raised # "" THEN Raised(frame.raised) ELSE Returned(sim))
    /\ UNCHANGED <<notefields, sim, heap>>

NextParse ==
    \/ ParseCall
    \/ OpenFile
    \/ Chdir
    \/ LarkParse
    \/ SimfileToken
    \/ DisplayBpm
    \/ Finally

SpecParse == InitParse /\ [][NextParse]_vars

-----------------------------------------------------------------------------
(* Claims about the parser. *)

\* C16: when parse(file) has finished, by returning a Simfile or by raising,
\* the working directory is the one parse was called in.
C16_WorkingDirectoryRestored ==
    frame.pc = "done" => cwd = frame.this_dir

C16_Witness ==
    /\ frame.pc = "done"
    /\ frame.this_dir = "home"
    /\ frame.file.dirname = "songs"
    /\ outcome.result.raised = "IndexError"
    /\ cwd = "home"

\* The rows of a chart without their times.
Untimed(rows) == [i \in 1..Len(rows) |-> GlobalRow(rows[i].row, rows[i].pos)]

\* C18: whatever the order of the BPMS, STOPS, OFFSET and NOTES entries, each
\* chart of the Simfile that parse returns has the row times that the
\* Simfile's complete BPM schedule, stop schedule and offset give.
C18_ChartsTimedWithCompleteSchedule ==
    (frame.pc = "done" /\ outcome.result.raised = "") =>
        \A c \in 1..Len(sim.charts) :
            sim.charts[c].note_field =
                calculate_timings(Untimed(sim.charts[c].note_field),
                                  heap[sim.bpm_segments], heap[sim.stop_segments],
                                  sim.offset).value

\* C19: at every moment of the assembly and after it, the schedules and the
\* offset a chart retains are those its times were computed with; what is
\* added to the Simfile's schedules later does not show in the chart.
C19_ChartKeepsItsSnapshot ==
    \A c \in 1..Len(sim.charts) :
        /\ heap[sim.charts[c].bpm_segments] = sim.charts[c].built_with.bpm_segments
        /\ heap[sim.charts[c].stop_segments] = sim.charts[c].built_with.stop_segments
        /\ sim.charts[c].offset = sim.charts[c].built_with.offset

-----------------------------------------------------------------------------
(* Claims about what hold_roll_bodies_distinct writes, lane by lane. *)

\* A long note of kind start is open on the lane (counted from 1) when row i of
\* the notefield c is rewritten: it started in an earlier row and no
\* HOLD_ROLL_END has come on the lane since, row i included.
OpenAt(c, i, lane, start) ==
    \E j \in 1..(i - 1) :
        /\ c[j].row[lane] = start
        /\ \A e \in (j + 1)..i : c[e].row[lane] # HOLD_ROLL_END

\* C21: hold_roll_bodies_distinct changes a lane only where the input lane is
\* EMPTY_LANE under an open hold (HOLD_BODY) or else under an open roll
\* (ROLL_BODY); every other object, taps, starts and ends included, is kept.
C21_OnlyEmptyLanesBecomeBodies ==
    outcome.called = "hold_roll_bodies_distinct" =>
        LET c == outcome.self
            o == outcome.result.value
        IN  /\ Len(o) = Len(c)
            /\ \A i \in 1..Len(c) :
                  /\ Len(o[i].row) = Len(c[i].row)
                  /\ \A lane \in 1..Len(c[i].row) :
                        o[i].row[lane] =
                            IF c[i].row[lane] = EMPTY_LANE /\ OpenAt(c, i, lane, HOLD_START)
                            THEN HOLD_BODY
                            ELSE IF c[i].row[lane] = EMPTY_LANE
                                    /\ OpenAt(c, i, lane, ROLL_START)
                                 THEN ROLL_BODY
                                 ELSE c[i].row[lane]

-----------------------------------------------------------------------------
(* Claims about the row a stop falls on. *)

\* The list without its k-th element.
WithoutAt(list, k) == SubSeq(list, 1, k - 1) \o SubSeq(list, k + 1, Len(list))

\* C22: a stop whose measure equals the position of a row is consumed before
\* that row is emitted: that row, like every later row, is later by the stop
\* than it is when the stop is taken out of the schedule.
C22_StopAtRowDelaysThatRow ==
    Finished =>
        \A k \in 1..Len(stop_segments) :
            LET rows == outcome.self
                without == calculate_timings(rows, bpm_segments,
                                             WithoutAt(stop_segments, k), offset).value
            IN  (\E i \in 1..Len(rows) : rows[i].pos = stop_segments[k].measure)
                => \A j \in 1..Len(rows) :
                      FLessEq(stop_segments[k].measure, rows[j].pos)
                      => FLess(without[j].time, TimedRows[j].time)

====
